---- MODULE Spec2Model ----
(***************************************************************************)
(* A model of the PPO driver of examples/baselines/ppo/ppo_rgb_sb3.py      *)
(* (rollout collection, advantage estimation, update epochs) and of the    *)
(* flatten wrappers of mani_skill/utils/wrappers/flatten.py.               *)
(*                                                                         *)
(* Tensors over (step, env) are functions [0..num_steps-1 -> [0..num_envs-1*)
(* -> value]].  Floating-point numbers are modelled as exact rationals     *)
(* <<numerator, denominator>> in lowest terms, so rounding is abstracted.  *)
(***************************************************************************)
EXTENDS Integers, Sequences, FiniteSets, TLC

(***************************************************************************)
(* Exact rational arithmetic (the float arithmetic of the tensors).        *)
(***************************************************************************)
Abs(x) == IF x < 0 THEN -x ELSE x

RECURSIVE GCD(_, _)
GCD(a, b) == IF b = 0 THEN a ELSE GCD(b, a % b)

\* the rational n/d in lowest terms with a positive denominator
Rat(n, d) ==
    LET s == IF d < 0 THEN -1 ELSE 1
        g == GCD(Abs(n), Abs(d))
    IN  <<(s * n) \div g, (s * d) \div g>>

RInt(i) == <<i, 1>>
RZero == <<0, 1>>
ROne == <<1, 1>>
\* sums over the least common denominator and products with cross-cancellation keep
\* the intermediate integers small
RAdd(x, y) ==
    LET g == GCD(x[2], y[2])
    IN  Rat(x[1] * (y[2] \div g) + y[1] * (x[2] \div g), (x[2] \div g) * y[2])
RNeg(x) == <<-x[1], x[2]>>
RSub(x, y) == RAdd(x, RNeg(y))
RMul(x, y) ==
    LET g1 == GCD(Abs(x[1]), y[2])
        g2 == GCD(Abs(y[1]), x[2])
    IN  <<(x[1] \div g1) * (y[1] \div g2), (x[2] \div g2) * (y[2] \div g1)>>
RDiv(x, y) == RMul(x, IF y[1] < 0 THEN <<-y[2], -y[1]>> ELSE <<y[2], y[1]>>)

RECURSIVE RPow(_, _)
RPow(x, n) == IF n = 0 THEN ROne ELSE RMul(x, RPow(x, n - 1))

(***************************************************************************)
(* Bounds of the model.                                                    *)
(***************************************************************************)
\* horizon of the rollouts handed to the advantage estimator in SpecGAE
GaeSteps == 3
\* horizon (num_steps) of the driver in Spec
NumSteps == 2
\* iterations (num_iterations) the driver runs in Spec
NumIterations == 2
\* time limit of the environment: an episode is truncated at this many steps
MaxEpisodeSteps == 2
\* sub-spaces of a Dict action space, the dimension of one, and the batch sizes
\* of the actions passed to the action wrapper
MaxKeys == 2
MaxSubDim == 2
MaxBatch == 2
\* cameras of an observation, and calls of observation() with one dict object
MaxCameras == 2
MaxCalls == 2

\* discount factor and GAE lambdas tried (4/5 and 9/10 are the defaults)
GammaSet == {<<4, 5>>}
LambdaSet == {<<0, 1>>, <<9, 10>>}
RewardVals == {0, 1}
ValueVals == {0, 1}
\* critic values of the final observation of an ended episode
FinalVals == {5}
\* approximate KL divergences a minibatch can measure
KLVals == {0, 2}

VARIABLES
    args,             \* the configuration (Args) with its derived fields
    asserts_on,       \* whether the interpreter executes assert statements
    box_actions,      \* whether the single action space of the envs is a Box
    pc,               \* position of the driver in __main__
    iteration,        \* loop variable of the iteration loop
    step,             \* loop variable of the rollout loop: steps taken this iteration
    global_step,
    env_elapsed,      \* the environment: elapsed steps of the episode of each slot
    next_obs,         \* next_obs[e]: observation returned by the latest reset or step
    next_done,        \* next_done[e]: done flag returned by the latest env step
    obs,              \* obs[t][e]
    rewards,          \* rewards[t][e]
    dones,            \* dones[t][e]: done flag recorded before step t
    values,           \* values[t][e]
    final_values,     \* final_values[t][e]: bootstrap value of an episode ended by step t
    params,           \* the model parameters: the number of optimizer steps taken
    next_value,       \* next_value[e]: critic value of next_obs after the rollout
    gae_t,            \* loop variable t of the backward advantage loop
    lam_coef_sum,     \* finite-horizon accumulators, per env
    reward_term_sum,
    value_term_sum,
    lastgaelam,       \* trace of the standard recursion, per env
    advantages,       \* advantages[t][e]
    returns,          \* returns[t][e]
    epoch,            \* loop variable of the update-epoch loop
    mb_start,         \* loop variable start of the minibatch loop
    approx_kl,        \* approx_kl of the minibatch evaluated last
    kl_stop,          \* history: the iteration in which target_kl was exceeded last
    eval_steps,       \* history: evaluation env steps taken
    ckpt_writes,      \* history: checkpoints written
    explained_var,    \* explained_var of the iteration completed last
    b_inds,           \* the batch indices, in their shuffled order
    mb_hist,          \* the minibatches of the epoch entered last, in order
    base_env_num_envs,          \* FlattenActionSpaceWrapper: base_env.num_envs
    orig_single_action_space,   \* _orig_single_action_space: items (key, Box) in order
    single_action_space,        \* the flat Box
    action_space,               \* the flat Box, batched when num_envs > 1
    action,                     \* the argument of the latest call of action()
    unflattened_action,         \* its result: items (key, slice) in order
    action_error,               \* the exception it raised, or "none"
    rgb_only,                   \* FlattenRGBDObservationWrapper: rgb_only
    observation,                \* the argument of the latest call of observation()
    raw_obs,                    \* that same dict object as the call left it
    new_obs,                    \* the result of the call
    obs_error,                  \* the exception it raised, or "none"
    obs_calls,                  \* history: calls made with this dict object
    prev_new_obs,               \* history: result of the call before, same object
    prev_obs_error

gaeVars == <<gae_t, lam_coef_sum, reward_term_sum, value_term_sum, lastgaelam,
             advantages, returns>>
bufVars == <<rewards, dones, values, final_values, next_done, next_value>>
envVars == <<env_elapsed, next_obs, obs>>
loopVars == <<iteration, step, global_step>>
updVars == <<params, epoch, mb_start, approx_kl, kl_stop>>
histVars == <<eval_steps, ckpt_writes>>
actVars == <<base_env_num_envs, orig_single_action_space, single_action_space,
             action_space, action, unflattened_action, action_error>>
obsVars == <<rgb_only, observation, raw_obs, new_obs, obs_error, obs_calls,
             prev_new_obs, prev_obs_error>>
wrapVars == <<actVars, obsVars>>
metricVars == <<explained_var>>
mbVars == <<b_inds, mb_hist>>
driverVars == <<args, asserts_on, box_actions, pc, loopVars, envVars, bufVars, gaeVars, updVars,
                histVars, metricVars, mbVars>>
vars == <<driverVars, wrapVars>>

(***************************************************************************)
(* Configuration: Args (lines 28-108) and the derived sizes of lines       *)
(* 270-272.                                                                *)
(***************************************************************************)
\* lines 270-272
WithDerived(a) ==
    [a EXCEPT !.batch_size = a.num_envs * a.num_steps,
              !.minibatch_size = (a.num_envs * a.num_steps) \div a.num_minibatches,
              !.num_iterations = a.total_timesteps \div (a.num_envs * a.num_steps)]

\* Optional[float]: None, or a number
NoTargetKL == [is_none |-> TRUE, v |-> 0]
TargetKL(v) == [is_none |-> FALSE, v |-> v]

\* the configuration the variations below start from
BaseArgs ==
    [num_envs |-> 2, num_steps |-> NumSteps,
     total_timesteps |-> 2 * NumSteps + 1,
     gamma |-> <<1, 2>>, gae_lambda |-> <<1, 1>>, finite_horizon_gae |-> TRUE,
     target_kl |-> TargetKL(1), update_epochs |-> 2, num_minibatches |-> 3,
     evaluate |-> FALSE, eval_freq |-> 2, num_eval_steps |-> 2, save_model |-> TRUE,
     batch_size |-> 0, minibatch_size |-> 0, num_iterations |-> 0]


Envs(a) == 0 .. (a.num_envs - 1)
Steps(a) == 0 .. (a.num_steps - 1)

\* torch.zeros((num_steps, num_envs))
Zeros2(a) == [t \in Steps(a) |-> [e \in Envs(a) |-> 0]]
RZeros2(a) == [t \in Steps(a) |-> [e \in Envs(a) |-> RZero]]
RZeros1(a) == [e \in Envs(a) |-> RZero]

(***************************************************************************)
(* Advantage estimation (lines 461-501).  The operators take the rollout   *)
(* as a record so that they can also be evaluated on another rollout.      *)
(***************************************************************************)
Rollout ==
    [rewards |-> rewards, dones |-> dones, values |-> values,
     final_values |-> final_values, next_done |-> next_done,
     next_value |-> next_value]

\* lines 466-471: next_not_done
NextNotDone_SameStep(ro, a, t, e) ==
    IF t = a.num_steps - 1 THEN 1 - ro.next_done[e] ELSE 1 - ro.dones[t][e]

NextNotDone(ro, a, t, e) ==
    IF t = a.num_steps - 1 THEN 1 - ro.next_done[e] ELSE 1 - ro.dones[t + 1][e]

\* lines 466-471: nextvalues
NextValues_SameStep(ro, a, t, e) ==
    IF t = a.num_steps - 1 THEN ro.next_value[e] ELSE ro.values[t][e]

NextValues(ro, a, t, e) ==
    IF t = a.num_steps - 1 THEN ro.next_value[e] ELSE ro.values[t + 1][e]

\* line 472: real_next_values = next_not_done * nextvalues + final_values[t]
RealNextValues_NextStep(ro, a, t, e) ==
    NextNotDone(ro, a, t, e) * NextValues(ro, a, t, e)
        + (IF t = a.num_steps - 1 THEN 0 ELSE ro.final_values[t + 1][e])

RealNextValues(ro, a, t, e) ==
    NextNotDone(ro, a, t, e) * NextValues(ro, a, t, e) + ro.final_values[t][e]

\* lines 476-497 for one env: c holds the three accumulators left by step t+1
FiniteHorizonCell_NoReset(ro, a, c, t, e) ==
    LET last == (t = a.num_steps - 1)
        lam0 == IF last THEN RZero ELSE c.lam_coef_sum
        rew0 == IF last THEN RZero ELSE c.reward_term_sum
        val0 == IF last THEN RZero ELSE c.value_term_sum
        lam2 == RAdd(ROne, RMul(a.gae_lambda, lam0))
        rew2 == RAdd(RMul(RMul(a.gae_lambda, a.gamma), rew0),
                     RMul(lam2, RInt(ro.rewards[t][e])))
        val2 == RAdd(RMul(RMul(a.gae_lambda, a.gamma), val0),
                     RMul(a.gamma, RInt(RealNextValues(ro, a, t, e))))
    IN  [lam_coef_sum |-> lam2, reward_term_sum |-> rew2, value_term_sum |-> val2,
         lastgaelam |-> c.lastgaelam,
         adv |-> RSub(RDiv(RAdd(rew2, val2), lam2), RInt(ro.values[t][e]))]

FiniteHorizonCell(ro, a, c, t, e) ==
    LET last == (t = a.num_steps - 1)
        nnd  == RInt(NextNotDone(ro, a, t, e))
        \* lines 485-488: initialise at the last step
        lam0 == IF last THEN RZero ELSE c.lam_coef_sum
        rew0 == IF last THEN RZero ELSE c.reward_term_sum
        val0 == IF last THEN RZero ELSE c.value_term_sum
        \* lines 489-491
        lam1 == RMul(lam0, nnd)
        rew1 == RMul(rew0, nnd)
        val1 == RMul(val0, nnd)
        \* lines 493-495
        lam2 == RAdd(ROne, RMul(a.gae_lambda, lam1))
        rew2 == RAdd(RMul(RMul(a.gae_lambda, a.gamma), rew1),
                     RMul(lam2, RInt(ro.rewards[t][e])))
        val2 == RAdd(RMul(RMul(a.gae_lambda, a.gamma), val1),
                     RMul(a.gamma, RInt(RealNextValues(ro, a, t, e))))
    IN  [lam_coef_sum |-> lam2, reward_term_sum |-> rew2, value_term_sum |-> val2,
         lastgaelam |-> c.lastgaelam,
         \* line 497
         adv |-> RSub(RDiv(RAdd(rew2, val2), lam2), RInt(ro.values[t][e]))]

\* lines 499-500 for one env
StandardCell(ro, a, c, t, e) ==
    LET delta == RSub(RAdd(RInt(ro.rewards[t][e]),
                           RMul(a.gamma, RInt(RealNextValues(ro, a, t, e)))),
                      RInt(ro.values[t][e]))
        adv   == RAdd(delta,
                      RMul(RMul(RMul(a.gamma, a.gae_lambda),
                                RInt(NextNotDone(ro, a, t, e))),
                           c.lastgaelam))
    IN  [lam_coef_sum |-> c.lam_coef_sum, reward_term_sum |-> c.reward_term_sum,
         value_term_sum |-> c.value_term_sum, lastgaelam |-> adv, adv |-> adv]

\* the body of the backward loop at step t for one env (line 476 selects the branch)
GaeCell(ro, a, c, t, e) ==
    IF a.finite_horizon_gae THEN FiniteHorizonCell(ro, a, c, t, e)
                            ELSE StandardCell(ro, a, c, t, e)

\* the accumulators before the loop: lastgaelam = 0 (line 464)
GaeInitCell ==
    [lam_coef_sum |-> RZero, reward_term_sum |-> RZero, value_term_sum |-> RZero,
     lastgaelam |-> RZero, adv |-> RZero]

\* the loop run from num_steps-1 down to t on rollout ro: the cell left by step t
RECURSIVE GaeDownTo(_, _, _, _)
GaeDownTo(ro, a, t, e) ==
    GaeCell(ro, a,
            IF t = a.num_steps - 1 THEN GaeInitCell ELSE GaeDownTo(ro, a, t + 1, e),
            t, e)

\* advantages[t][e] as the whole loop computes it on rollout ro
AdvantageOf(ro, a, t, e) == GaeDownTo(ro, a, t, e).adv

\* the accumulators of env e in the current state
AccCell(e) ==
    [lam_coef_sum |-> lam_coef_sum[e], reward_term_sum |-> reward_term_sum[e],
     value_term_sum |-> value_term_sum[e], lastgaelam |-> lastgaelam[e], adv |-> RZero]

\* one pass of the loop body of lines 465-500, for all envs at once
GaeStep ==
    /\ pc = "gae"
    /\ LET new == [e \in Envs(args) |-> GaeCell(Rollout, args, AccCell(e), gae_t, e)]
       IN  /\ lam_coef_sum' = [e \in Envs(args) |-> new[e].lam_coef_sum]
           /\ reward_term_sum' = [e \in Envs(args) |-> new[e].reward_term_sum]
           /\ value_term_sum' = [e \in Envs(args) |-> new[e].value_term_sum]
           /\ lastgaelam' = [e \in Envs(args) |-> new[e].lastgaelam]
           /\ advantages' = [advantages EXCEPT ![gae_t] = [e \in Envs(args) |-> new[e].adv]]
    /\ IF gae_t = 0
         THEN pc' = "gae_returns" /\ gae_t' = gae_t
         ELSE pc' = pc /\ gae_t' = gae_t - 1
    /\ UNCHANGED <<wrapVars, metricVars, mbVars, args, asserts_on, box_actions, loopVars, envVars, bufVars, returns, updVars, histVars>>

\* np.arange(n)
Arange(n) == [i \in 1 .. n |-> i - 1]

\* line 501: returns = advantages + values; lines 503-516: the batch is flattened
\* and the update loops start
GaeReturns ==
    /\ pc = "gae_returns"
    /\ returns' = [t \in Steps(args) |-> [e \in Envs(args) |->
                      RAdd(advantages[t][e], RInt(values[t][e]))]]
    /\ epoch' = 0
    /\ mb_start' = 0
    \* line 513: b_inds = np.arange(args.batch_size)
    /\ b_inds' = Arange(args.batch_size)
    /\ mb_hist' = <<>>
    /\ pc' = IF args.update_epochs > 0 THEN "update" ELSE "iter_tail"
    /\ UNCHANGED <<wrapVars, metricVars, args, asserts_on, box_actions, loopVars, envVars, bufVars, gae_t, lam_coef_sum,
                   reward_term_sum, value_term_sum, lastgaelam, advantages,
                   params, approx_kl, kl_stop, histVars>>

(***************************************************************************)
(* The vectorized environment (spec sections 4.3 and 6).  An observation   *)
(* is [kind, k]: the reset observation of a new episode, the observation   *)
(* after k steps of an episode, or the final observation of an episode that*)
(* ended at its k-th step.                                                 *)
(***************************************************************************)
ZeroObs == [kind |-> "zeros", k |-> 0]
ResetObs == [kind |-> "reset", k |-> 0]
MidObs(k) == [kind |-> "mid", k |-> k]
FinalObs(k) == [kind |-> "final", k |-> k]

\* envs.step: term[e] says whether the task of slot e terminates at this step; a
\* slot that ended is reset, its final observation goes to the side channel
EnvStep(elapsed, term) ==
    LET n == DOMAIN elapsed
        trunc == [e \in n |-> elapsed[e] + 1 >= MaxEpisodeSteps]
        ended == [e \in n |-> term[e] \/ trunc[e]]
    IN  [obs |-> [e \in n |-> IF ended[e] THEN ResetObs ELSE MidObs(elapsed[e] + 1)],
         reward |-> [e \in n |-> elapsed[e] + 1],
         terminations |-> term,
         truncations |-> trunc,
         has_final_info |-> \E e \in n : ended[e],
         final_mask |-> ended,
         final_observation |-> [e \in n |-> FinalObs(elapsed[e] + 1)],
         elapsed |-> [e \in n |-> IF ended[e] THEN 0 ELSE elapsed[e] + 1]]

\* Agent.get_value (lines 238-240), as an uninterpreted function of the
\* observation: distinct observations give distinct, nonzero values
Critic(o) == 1 + 2 * o.k + (IF o.kind = "final" THEN 1 ELSE 0)

\* kl_stop when target_kl has not been exceeded yet
NoStop == 0

(***************************************************************************)
(* The driver (__main__, lines 345-592).                                   *)
(***************************************************************************)
\* lines 345-377: the asserts, storage setup, the first reset
Startup ==
    /\ pc = "startup"
    /\ IF asserts_on
         THEN \* line 345: only a Box action space is supported; line 349: assert 0
              /\ pc' = IF box_actions THEN "aborted" ELSE "config_error"
              /\ UNCHANGED <<loopVars, envVars, bufVars>>
         ELSE /\ obs' = [t \in Steps(args) |-> [e \in Envs(args) |-> ZeroObs]]
              /\ rewards' = Zeros2(args)
              /\ dones' = Zeros2(args)
              /\ values' = Zeros2(args)
              /\ global_step' = 0
              /\ next_obs' = [e \in Envs(args) |-> ResetObs]
              /\ env_elapsed' = [e \in Envs(args) |-> 0]
              /\ next_done' = [e \in Envs(args) |-> 0]
              /\ pc' = IF args.num_iterations >= 1 THEN "iter_head" ELSE "finish"
              /\ UNCHANGED <<iteration, step, final_values, next_value>>
    /\ UNCHANGED <<wrapVars, metricVars, mbVars, args, asserts_on, box_actions, gaeVars, updVars, histVars>>

\* line 383: iteration % args.eval_freq == 1
EvalDue(a, i) == i % a.eval_freq = 1

\* lines 379-430: the head of an iteration, with the evaluation pass
IterHead ==
    /\ pc = "iter_head"
    /\ final_values' = Zeros2(args)
    /\ eval_steps' = IF EvalDue(args, iteration)
                       THEN eval_steps + args.num_eval_steps ELSE eval_steps
    /\ IF EvalDue(args, iteration) /\ args.evaluate
         THEN \* line 420: break
              pc' = "finish" /\ UNCHANGED <<ckpt_writes, step>>
         ELSE /\ ckpt_writes' = IF args.save_model /\ EvalDue(args, iteration)
                                  THEN ckpt_writes + 1 ELSE ckpt_writes
              /\ step' = 0
              /\ pc' = "rollout"
    /\ UNCHANGED <<wrapVars, metricVars, mbVars, args, asserts_on, box_actions, iteration, global_step, envVars, rewards, dones,
                   values, next_done, next_value, gaeVars, updVars>>

\* line 444: next_obs is the observation envs.step returns
StepObs_KeepFinal(out) ==
    [e \in DOMAIN out.obs |->
        IF out.final_mask[e] THEN out.final_observation[e] ELSE out.obs[e]]

StepObs(out) == out.obs

\* line 446: next_done = logical_or(terminations, truncations)
StepDone_TerminationsOnly(out) ==
    [e \in DOMAIN out.obs |-> IF out.terminations[e] THEN 1 ELSE 0]

StepDone(out) ==
    [e \in DOMAIN out.obs |->
        IF out.terminations[e] \/ out.truncations[e] THEN 1 ELSE 0]

\* lines 456-458: the critic's value of the final observations, written at
\* [step, slot] for the slots of done_mask
FinalValuesWritten_Unmasked(fv, out) ==
    [e \in DOMAIN fv |-> Critic(out.final_observation[e])]

FinalValuesWritten(fv, out) ==
    [e \in DOMAIN fv |->
        IF out.final_mask[e] THEN Critic(out.final_observation[e]) ELSE fv[e]]

\* line 432: for step in range(0, args.num_steps) has made s passes and ends
RolloutOver_OneShort(a, s) == s >= a.num_steps - 1

RolloutOver(a, s) == s >= a.num_steps

\* lines 432-458: one pass of the rollout loop
RolloutStep ==
    /\ pc = "rollout"
    /\ \E term \in [Envs(args) -> BOOLEAN] :
         LET out == EnvStep(env_elapsed, term)
         IN  /\ global_step' = global_step + args.num_envs
             /\ obs' = [obs EXCEPT ![step] = next_obs]
             /\ dones' = [dones EXCEPT ![step] = next_done]
             /\ values' = [values EXCEPT ![step] =
                              [e \in Envs(args) |-> Critic(next_obs[e])]]
             /\ env_elapsed' = out.elapsed
             /\ next_obs' = StepObs(out)
             /\ next_done' = StepDone(out)
             /\ rewards' = [rewards EXCEPT ![step] = out.reward]
             /\ IF out.has_final_info /\ args.evaluate
                  THEN \* line 453: writer is None
                       /\ pc' = "crashed"
                       /\ UNCHANGED <<final_values, step>>
                  ELSE /\ final_values' =
                            IF out.has_final_info
                              THEN [final_values EXCEPT ![step] =
                                       FinalValuesWritten(final_values[step], out)]
                              ELSE final_values
                       /\ step' = step + 1
                       /\ pc' = IF RolloutOver(args, step + 1) THEN "gae_begin" ELSE pc
    /\ UNCHANGED <<wrapVars, metricVars, mbVars, args, asserts_on, box_actions, iteration, next_value, gaeVars, updVars, histVars>>

\* lines 462-464: the value of the observation after the rollout
GaeBegin ==
    /\ pc = "gae_begin"
    /\ next_value' = [e \in Envs(args) |-> Critic(next_obs[e])]
    /\ advantages' = RZeros2(args)
    /\ lastgaelam' = RZeros1(args)
    /\ gae_t' = args.num_steps - 1
    /\ pc' = "gae"
    /\ UNCHANGED <<wrapVars, metricVars, mbVars, args, asserts_on, box_actions, loopVars, envVars, rewards, dones, values,
                   final_values, next_done, lam_coef_sum, reward_term_sum,
                   value_term_sum, returns, updVars, histVars>>

\* line 532: the early stop inside the minibatch loop
KLBreak(a, kl) == ~a.target_kl.is_none /\ kl > a.target_kl.v

\* line 566: the early stop of the epoch loop
EpochBreak_Missing(a, kl) == FALSE

EpochBreak(a, kl) == ~a.target_kl.is_none /\ kl > a.target_kl.v

\* lines 518-567: one pass of the minibatch loop, with the end of the epoch when
\* it is the last pass
\* the largest batch whose every shuffled order is tried
MaxShuffle == 4

Reversed(b) == [i \in DOMAIN b |-> b[Len(b) + 1 - i]]

Rotated(b) == [i \in DOMAIN b |-> b[(i % Len(b)) + 1]]

\* line 517: np.random.shuffle(b_inds) leaves any order of the same indices;
\* of a batch larger than MaxShuffle three orders are tried
Shuffles(b) ==
    IF Len(b) <= MaxShuffle
      THEN {p \in [DOMAIN b -> {b[i] : i \in DOMAIN b}] :
              \A i, j \in DOMAIN b : p[i] = p[j] => i = j}
      ELSE {b, Reversed(b), Rotated(b)}

\* line 520: b_inds[start:end], the slice clamped to the length as numpy does
MbSlice(b, start, end) ==
    SubSeq(b, start + 1, IF end < Len(b) THEN end ELSE Len(b))

\* lines 516-567: one pass of the minibatch loop, entering an epoch (the
\* shuffle of line 517) when it is the first of the epoch
Minibatch ==
    /\ pc = "update"
    /\ IF args.minibatch_size = 0
         THEN \* line 518: range() with a step of 0, after the shuffle
              /\ pc' = "crashed"
              /\ b_inds' \in Shuffles(b_inds)
              /\ UNCHANGED <<updVars, mb_hist>>
         ELSE \E kl \in KLVals :
                LET brk == KLBreak(args, kl)
                    nxt == mb_start + args.minibatch_size
                    inner_over == brk \/ nxt >= args.batch_size
                    outer_over == EpochBreak(args, kl) \/ epoch + 1 >= args.update_epochs
                IN  /\ b_inds' \in IF mb_start = 0 THEN Shuffles(b_inds) ELSE {b_inds}
                    \* line 520: mb_inds
                    /\ mb_hist' = (IF mb_start = 0 THEN <<>> ELSE mb_hist)
                                     \o <<MbSlice(b_inds', mb_start, nxt)>>
                    /\ approx_kl' = kl
                    \* lines 561-564: optimizer.step()
                    /\ params' = IF brk THEN params ELSE params + 1
                    /\ kl_stop' = IF ~args.target_kl.is_none /\ kl > args.target_kl.v
                                    THEN iteration ELSE kl_stop
                    /\ IF ~inner_over
                         THEN mb_start' = nxt /\ epoch' = epoch /\ pc' = pc
                         ELSE IF ~outer_over
                                THEN mb_start' = 0 /\ epoch' = epoch + 1 /\ pc' = pc
                                ELSE pc' = "iter_tail" /\ UNCHANGED <<epoch, mb_start>>
    /\ UNCHANGED <<wrapVars, metricVars, args, asserts_on, box_actions, loopVars, envVars, bufVars, gaeVars, histVars>>

\* tensor.reshape(-1) of a (num_steps, num_envs) tensor (lines 507-508)
Flat(a, b) ==
    [i \in 1 .. a.num_steps * a.num_envs |->
        b[(i - 1) \div a.num_envs][(i - 1) % a.num_envs]]

RECURSIVE RSum(_)
RSum(x) == IF x = <<>> THEN RZero ELSE RAdd(Head(x), RSum(Tail(x)))

\* np.mean
NpMean(x) == RDiv(RSum(x), RInt(Len(x)))

\* np.var: the mean of the squared deviations from the mean
NpVar_Uncentered(x) == NpMean([i \in DOMAIN x |-> RMul(x[i], x[i])])

NpVar(x) ==
    NpMean([i \in DOMAIN x |-> RMul(RSub(x[i], NpMean(x)), RSub(x[i], NpMean(x)))])

\* np.nan, and explained_var before the first iteration has computed it
NaN == [kind |-> "nan", v |-> RZero]
Unset == [kind |-> "unset", v |-> RZero]

\* lines 569-571
ExplainedVar(y_pred, y_true) ==
    LET var_y == NpVar(y_true)
    IN  IF var_y = RZero
          THEN NaN
          ELSE [kind |-> "num",
                v |-> RSub(ROne,
                           RDiv(NpVar([i \in DOMAIN y_true |-> RSub(y_true[i], y_pred[i])]),
                                var_y))]

\* lines 568-585: the metrics of the iteration; the iteration loop advances
IterTail ==
    /\ pc = "iter_tail"
    /\ explained_var' = ExplainedVar(Flat(args, [t \in Steps(args) |->
                                                  [e \in Envs(args) |-> RInt(values[t][e])]]),
                                     Flat(args, returns))
    /\ IF args.evaluate
         THEN \* line 573: writer is None
              pc' = "crashed" /\ UNCHANGED iteration
         ELSE IF iteration < args.num_iterations
                THEN iteration' = iteration + 1 /\ pc' = "iter_head"
                ELSE pc' = "finish" /\ UNCHANGED iteration
    \* b_inds is assigned anew (line 513) before its next use: past the update
    \* its order and the minibatches cut from it are dropped
    /\ b_inds' = <<>>
    /\ mb_hist' = <<>>
    /\ UNCHANGED <<wrapVars, args, asserts_on, box_actions, step, global_step, envVars, bufVars,
                   gaeVars, updVars, histVars>>

\* lines 586-592: the final checkpoint
Finish ==
    /\ pc = "finish"
    /\ ckpt_writes' = IF args.save_model /\ ~args.evaluate
                        THEN ckpt_writes + 1 ELSE ckpt_writes
    /\ pc' = "done"
    /\ UNCHANGED <<wrapVars, metricVars, mbVars, args, asserts_on, box_actions, loopVars, envVars, bufVars, gaeVars, updVars,
                   eval_steps>>

(***************************************************************************)
(* FlattenActionSpaceWrapper (flatten.py, lines 120-158).  A Box is its    *)
(* shape; a tensor is its shape and its entries, a vector of entries when  *)
(* it has one axis and a sequence of rows when it has two; a dict is the   *)
(* sequence of its items in iteration order.                               *)
(***************************************************************************)
\* the keys a Dict action space is built from
KeyNames == <<"arm", "gripper", "base", "head">>
Keys == {KeyNames[i] : i \in 1 .. MaxKeys}

Box(shape) == [shape |-> shape]

RECURSIVE Prod(_)
Prod(shape) == IF shape = <<>> THEN 1 ELSE Head(shape) * Prod(Tail(shape))

\* the Dict spaces of one-axis Boxes, keys in any order
DictSpaces ==
    UNION {{[i \in 1 .. n |-> [key |-> ks[i], space |-> Box(<<ds[i]>>)]] :
               ks \in {f \in [1 .. n -> Keys] : \A i, j \in 1 .. n : f[i] = f[j] => i = j},
               ds \in [1 .. n -> 1 .. MaxSubDim]} :
           n \in 1 .. MaxKeys}

\* gymnasium.spaces.utils.flatten_space of a Dict of Boxes (lines 130-132): one
\* Box of the summed flat dimensions
RECURSIVE FlatDim(_)
FlatDim(items) ==
    IF items = <<>> THEN 0 ELSE Prod(Head(items).space.shape) + FlatDim(Tail(items))

FlattenSpace(items) == Box(<<FlatDim(items)>>)

\* lines 133-138
BatchedSpace(space, n) == IF n > 1 THEN Box(<<n>> \o space.shape) ELSE space

\* common.batch: a leading axis of size 1
Batch(act) == [shape |-> <<1>> \o act.shape, at |-> <<act.at>>]

\* lines 145-148: whether the action is promoted to a batch
Promotes_AnyNumEnvs(n, single, act) == act.shape = single.shape

Promotes(n, single, act) == n = 1 /\ act.shape = single.shape

Min(x, y) == IF x < y THEN x ELSE y

\* action[:, start:end] of a tensor with two axes
Slice(act, start, end) ==
    LET lo == Min(start, act.shape[2])
        hi == Min(end, act.shape[2])
    IN  [shape |-> <<act.shape[1], IF hi > lo THEN hi - lo ELSE 0>>,
         at |-> [r \in 1 .. act.shape[1] |-> SubSeq(act.at[r], lo + 1, hi)]]

\* line 155: end += space.shape[0]
SliceEnd(end, space) == end + space.shape[1]

\* line 157: start += space.shape[0]
SliceStart_NotAdvanced(start, space) == start

SliceStart(start, space) == start + space.shape[1]

\* lines 152-158: the loop over the items of _orig_single_action_space
RECURSIVE Unflatten(_, _, _, _)
Unflatten(items, act, start, end) ==
    IF items = <<>>
      THEN <<>>
      ELSE LET space == Head(items).space
               e2 == SliceEnd(end, space)
           IN  <<[key |-> Head(items).key, value |-> Slice(act, start, e2)]>>
                 \o Unflatten(Tail(items), act, SliceStart(start, space), e2)

NoTensor == [shape |-> <<>>, at |-> <<>>]

\* FlattenActionSpaceWrapper.action (lines 144-158)
ActionResult(n, orig, single, act) ==
    LET a1 == IF Promotes(n, single, act) THEN Batch(act) ELSE act
    IN  IF Len(a1.shape) # 2
          THEN \* action[:, start:end] of a tensor with one axis
               [error |-> "IndexError", items |-> <<>>]
          ELSE [error |-> "none", items |-> Unflatten(orig, a1, 0, 0)]

\* the flat form of the nested action whose component for key k has the entries
\* <<k, r, j>>: row r of a batch (r >= 1), or the unbatched action (r = 0)
RECURSIVE FlatRow(_, _)
FlatRow(items, r) ==
    IF items = <<>>
      THEN <<>>
      ELSE [j \in 1 .. Head(items).space.shape[1] |-> <<Head(items).key, r, j>>]
             \o FlatRow(Tail(items), r)

Unbatched(items, pad) ==
    LET row == FlatRow(items, 0) \o [j \in 1 .. pad |-> <<"pad", 0, j>>]
    IN  [shape |-> <<Len(row)>>, at |-> row]

Batched(items, n, pad) ==
    [shape |-> <<n, FlatDim(items) + pad>>,
     at |-> [r \in 1 .. n |-> FlatRow(items, r) \o [j \in 1 .. pad |-> <<"pad", r, j>>]]]

\* the actions handed to action(): unbatched or a batch of any size, of the flat
\* dimension or one entry longer
ActionInputs(items) ==
    {Unbatched(items, pad) : pad \in {0, 1}}
      \cup {Batched(items, n, pad) : n \in 1 .. MaxBatch, pad \in {0, 1}}

\* one call of action()
ActionCall ==
    /\ \E act \in ActionInputs(orig_single_action_space) :
          LET res == ActionResult(base_env_num_envs, orig_single_action_space,
                                  single_action_space, act)
          IN  /\ action' = act
              /\ unflattened_action' = res.items
              /\ action_error' = res.error
    /\ UNCHANGED <<base_env_num_envs, orig_single_action_space, single_action_space,
                   action_space, obsVars, driverVars>>

\* FlattenActionSpaceWrapper.__init__ (lines 125-138) on a base env of n envs
\* with the Dict action space items
ActionWrapperInit(n, items) ==
    /\ base_env_num_envs = n
    /\ orig_single_action_space = items
    /\ single_action_space = FlattenSpace(items)
    /\ action_space = BatchedSpace(FlattenSpace(items), n)
    /\ action = NoTensor
    /\ unflattened_action = <<>>
    /\ action_error = "none"

(***************************************************************************)
(* FlattenRGBDObservationWrapper (flatten.py, lines 14-49).  An image is   *)
(* its resolution and the sequence of its channels (the last axis).        *)
(***************************************************************************)
HasKey(d, k) == \E i \in DOMAIN d : d[i].key = k
Get(d, k) == d[CHOOSE i \in DOMAIN d : d[i].key = k].value
\* dict.pop(k), del dict[k]
Without(d, k) == [i \in 1 .. Len(d) - 1 |->
                    IF \E j \in 1 .. i : d[j].key = k THEN d[i + 1] ELSE d[i]]

CamNames == <<"base_camera", "hand_camera", "side_camera", "top_camera">>
Resolutions == {64, 128}

ColorImage(cam, hw) ==
    [hw |-> hw, channels |-> <<[cam |-> cam, ch |-> "r"], [cam |-> cam, ch |-> "g"],
                               [cam |-> cam, ch |-> "b"]>>]
DepthImage(cam, hw) == [hw |-> hw, channels |-> <<[cam |-> cam, ch |-> "d"]>>]

\* the data of one camera, with or without its color and depth images
CameraData(cam, hw, color, depth) ==
    (IF color THEN <<[key |-> "rgb", value |-> ColorImage(cam, hw)]>> ELSE <<>>)
      \o (IF depth THEN <<[key |-> "depth", value |-> DepthImage(cam, hw)]>> ELSE <<>>)

SensorData ==
    UNION {{[i \in 1 .. n |-> [key |-> CamNames[i],
                                value |-> CameraData(CamNames[i], hw[i], c[i], d[i])]] :
               hw \in [1 .. n -> Resolutions], c \in [1 .. n -> BOOLEAN],
               d \in [1 .. n -> BOOLEAN]} :
           n \in 0 .. MaxCameras}

\* the observations handed to observation(): the nested dict of the rgbd
\* observation mode, with or without its sensor entries, or something that is
\* no dict
RawObservations ==
    {[is_dict |-> FALSE, items |-> <<>>]}
      \cup {[is_dict |-> TRUE,
             items |-> <<[key |-> "agent", value |-> <<"qpos", "qvel">>],
                         [key |-> "extra", value |-> <<"tcp_pose">>]>>
                       \o (IF sp THEN <<[key |-> "sensor_param", value |-> <<>>]>>
                                 ELSE <<>>)
                       \o sd] :
               sp \in BOOLEAN,
               sd \in {<<>>} \cup {<<[key |-> "sensor_data", value |-> s]>> :
                                      s \in SensorData}}

\* lines 37-39: the images one camera contributes
CameraImages_DepthFirst(cam_data, ro) ==
    (IF ~ro THEN <<Get(cam_data, "depth")>> ELSE <<>>) \o <<Get(cam_data, "rgb")>>

CameraImages(cam_data, ro) ==
    <<Get(cam_data, "rgb")>> \o (IF ~ro THEN <<Get(cam_data, "depth")>> ELSE <<>>)

\* whether lines 37-39 raise KeyError on this camera
CameraKeyError(cam_data, ro) ==
    ~HasKey(cam_data, "rgb") \/ (~ro /\ ~HasKey(cam_data, "depth"))

\* lines 35-39: the loop over sensor_data.values()
RECURSIVE Images(_, _)
Images(sensor_data, ro) ==
    IF sensor_data = <<>>
      THEN <<>>
      ELSE CameraImages(Head(sensor_data).value, ro) \o Images(Tail(sensor_data), ro)

\* line 42: torch.concat(images, axis=-1)
RECURSIVE Channels(_)
Channels(images) ==
    IF images = <<>> THEN <<>> ELSE Head(images).channels \o Channels(Tail(images))

ConcatError(images) ==
    images = <<>> \/ \E i, j \in DOMAIN images : images[i].hw # images[j].hw

Concat(images) == [hw |-> images[1].hw, channels |-> Channels(images)]

\* common.flatten_state_dict: the entries of the dict's values, in item order
RECURSIVE FlattenStateDict(_)
FlattenStateDict(items) ==
    IF items = <<>> THEN <<>> ELSE Head(items).value \o FlattenStateDict(Tail(items))

\* lines 46-49
ImageKey(ro) == IF ro THEN "rgb" ELSE "rgbd"

NoResult == [k \in {} |-> 0]

Raised(err, left) == [error |-> err, result |-> NoResult, left |-> left]

\* FlattenRGBDObservationWrapper.observation (lines 32-49): the result, the
\* exception, and the argument as the call leaves it
ObservationResult(ro, o) ==
    IF ~o.is_dict
      THEN Raised("AttributeError", o)
    ELSE IF ~HasKey(o.items, "sensor_data")
      THEN Raised("KeyError", o)
    ELSE LET sensor_data == Get(o.items, "sensor_data")
             o1 == [o EXCEPT !.items = Without(@, "sensor_data")]
         IN  IF ~HasKey(o1.items, "sensor_param")
               THEN Raised("KeyError", o1)
             ELSE LET o2 == [o1 EXCEPT !.items = Without(@, "sensor_param")]
                  IN  IF \E i \in DOMAIN sensor_data :
                            CameraKeyError(sensor_data[i].value, ro)
                        THEN Raised("KeyError", o2)
                      ELSE IF ConcatError(Images(sensor_data, ro))
                        THEN Raised("RuntimeError", o2)
                      ELSE [error |-> "none",
                            left |-> o2,
                            result |-> [k \in {"state", ImageKey(ro)} |->
                                          IF k = "state"
                                            THEN FlattenStateDict(o2.items)
                                            ELSE Concat(Images(sensor_data, ro))]]

\* gym.ObservationWrapper.step/reset: observation() on the dict the env returns
ObservationStep ==
    /\ \E o \in RawObservations :
          LET res == ObservationResult(rgb_only, o)
          IN  /\ observation' = o
              /\ raw_obs' = res.left
              /\ new_obs' = res.result
              /\ obs_error' = res.error
    /\ obs_calls' = 1
    /\ prev_new_obs' = NoResult
    /\ prev_obs_error' = "none"
    /\ UNCHANGED <<rgb_only, actVars, driverVars>>

\* observation() called once more with the dict object of the latest call
ObservationAgain ==
    /\ obs_calls < MaxCalls
    /\ LET res == ObservationResult(rgb_only, raw_obs)
       IN  /\ observation' = raw_obs
           /\ raw_obs' = res.left
           /\ new_obs' = res.result
           /\ obs_error' = res.error
    /\ obs_calls' = obs_calls + 1
    /\ prev_new_obs' = new_obs
    /\ prev_obs_error' = obs_error
    /\ UNCHANGED <<rgb_only, actVars, driverVars>>

\* FlattenRGBDObservationWrapper.__init__ (lines 19-29) with base_env._init_raw_obs
\* = o: the wrapper exists when observation() did not raise
ObservationWrapperInit(ro, o) ==
    /\ ObservationResult(ro, o).error = "none"
    /\ rgb_only = ro
    /\ observation = o
    /\ raw_obs = ObservationResult(ro, o).left
    /\ new_obs = ObservationResult(ro, o).result
    /\ obs_error = "none"
    /\ obs_calls = 1
    /\ prev_new_obs = NoResult
    /\ prev_obs_error = "none"

\* the wrappers of the driver's env: one flat action space, one camera
ActionWrapperAtRest ==
    ActionWrapperInit(1, <<[key |-> "arm", space |-> Box(<<1>>)]>>)

\* base_env._init_raw_obs: the observation of the env's first reset
InitRawObs ==
    [is_dict |-> TRUE,
     items |-> <<[key |-> "agent", value |-> <<"qpos", "qvel">>],
                 [key |-> "extra", value |-> <<"tcp_pose">>],
                 [key |-> "sensor_param", value |-> <<>>],
                 [key |-> "sensor_data", value |->
                    <<[key |-> CamNames[1],
                       value |-> CameraData(CamNames[1], 64, TRUE, TRUE)]>>]>>]

ObservationWrapperAtRest == ObservationWrapperInit(TRUE, InitRawObs)

WrappersAtRest == ActionWrapperAtRest /\ ObservationWrapperAtRest

\* the configurations of Spec: the base configuration and its variations
DriverArgs ==
    LET OneEnv == [BaseArgs EXCEPT !.num_envs = 1,
                                   !.num_minibatches = 2,
                                   !.total_timesteps = NumIterations * NumSteps]
    IN  {WithDerived(a) : a \in
            {BaseArgs,
             OneEnv,
             [OneEnv EXCEPT !.target_kl = NoTargetKL, !.total_timesteps = NumSteps],
             [OneEnv EXCEPT !.finite_horizon_gae = FALSE, !.total_timesteps = NumSteps],
             [OneEnv EXCEPT !.eval_freq = 1, !.total_timesteps = NumSteps],
             [OneEnv EXCEPT !.num_minibatches = NumSteps + 1],
             [OneEnv EXCEPT !.evaluate = TRUE],
             [OneEnv EXCEPT !.evaluate = TRUE, !.eval_freq = 1]}}

\* the driver before its first step
DriverStart ==
    /\ pc = "startup"
    /\ iteration = 1
    /\ step = 0
    /\ global_step = 0
    /\ env_elapsed = [e \in Envs(args) |-> 0]
    /\ next_obs = [e \in Envs(args) |-> ZeroObs]
    /\ next_done = [e \in Envs(args) |-> 0]
    /\ obs = [t \in Steps(args) |-> [e \in Envs(args) |-> ZeroObs]]
    /\ rewards = Zeros2(args)
    /\ dones = Zeros2(args)
    /\ values = Zeros2(args)
    /\ final_values = Zeros2(args)
    /\ params = 0
    /\ next_value = [e \in Envs(args) |-> 0]
    /\ gae_t = 0
    /\ lam_coef_sum = RZeros1(args)
    /\ reward_term_sum = RZeros1(args)
    /\ value_term_sum = RZeros1(args)
    /\ lastgaelam = RZeros1(args)
    /\ advantages = RZeros2(args)
    /\ returns = RZeros2(args)
    /\ epoch = 0
    /\ mb_start = 0
    /\ approx_kl = 0
    /\ kl_stop = NoStop
    /\ eval_steps = 0
    /\ ckpt_writes = 0
    /\ explained_var = Unset
    /\ b_inds = <<>>
    /\ mb_hist = <<>>

Init ==
    /\ args \in DriverArgs
    /\ asserts_on \in BOOLEAN
    \* a space that is not a Box is followed as far as the assert of line 345
    /\ box_actions \in IF asserts_on THEN BOOLEAN ELSE {TRUE}
    /\ DriverStart
    /\ WrappersAtRest

Next ==
    \/ Startup
    \/ IterHead
    \/ RolloutStep
    \/ GaeBegin
    \/ GaeStep
    \/ GaeReturns
    \/ Minibatch
    \/ IterTail
    \/ Finish

Spec == Init /\ [][Next]_vars

(***************************************************************************)
(* SpecGAE: the advantage estimator on every rollout of GaeSteps steps of  *)
(* one env that the collector can leave behind.                            *)
(***************************************************************************)
GaeArgs ==
    {WithDerived([BaseArgs EXCEPT !.num_envs = 1, !.num_steps = GaeSteps,
                                  !.total_timesteps = GaeSteps,
                                  !.gamma = g, !.gae_lambda = l,
                                  !.finite_horizon_gae = f]) :
        g \in GammaSet, l \in LambdaSet, f \in BOOLEAN}

\* the done flag that follows step t of rollout ro
DoneAfter(ro, a, t, e) ==
    IF t = a.num_steps - 1 THEN ro.next_done[e] ELSE ro.dones[t + 1][e]

InitGAE ==
    /\ args \in GaeArgs
    /\ pc = "gae"
    /\ rewards \in [Steps(args) -> [Envs(args) -> RewardVals]]
    /\ values \in [Steps(args) -> [Envs(args) -> ValueVals]]
    /\ dones \in [Steps(args) -> [Envs(args) -> {0, 1}]]
    /\ \A e \in Envs(args) : dones[0][e] = 0
    /\ next_done \in [Envs(args) -> {0, 1}]
    /\ next_value \in [Envs(args) -> ValueVals]
    \* the collector writes final_values[t][e] exactly where step t ended an episode
    /\ \E fv \in FinalVals :
          final_values = [t \in Steps(args) |-> [e \in Envs(args) |->
              IF DoneAfter([dones |-> dones, next_done |-> next_done], args, t, e) = 1
                THEN fv ELSE 0]]
    /\ gae_t = args.num_steps - 1
    /\ lam_coef_sum = RZeros1(args)
    /\ reward_term_sum = RZeros1(args)
    /\ value_term_sum = RZeros1(args)
    /\ lastgaelam = RZeros1(args)
    /\ advantages = RZeros2(args)
    /\ returns = RZeros2(args)
    \* the rest of the driver is at rest
    /\ asserts_on = FALSE
    /\ box_actions = TRUE
    /\ iteration = 1
    /\ step = args.num_steps
    /\ global_step = args.batch_size
    /\ env_elapsed = [e \in Envs(args) |-> 0]
    /\ next_obs = [e \in Envs(args) |-> ResetObs]
    /\ obs = [t \in Steps(args) |-> [e \in Envs(args) |-> ZeroObs]]
    /\ params = 0
    /\ epoch = 0
    /\ mb_start = 0
    /\ approx_kl = 0
    /\ kl_stop = NoStop
    /\ eval_steps = 0
    /\ ckpt_writes = 0
    /\ explained_var = Unset
    /\ b_inds = <<>>
    /\ mb_hist = <<>>
    /\ WrappersAtRest

NextGAE == GaeStep \/ GaeReturns

SpecGAE == InitGAE /\ [][NextGAE]_vars

(***************************************************************************)
(* SpecAction, SpecObservation: the wrappers of flatten.py on the spaces   *)
(* and observations of a base env, the driver not started.                 *)
(***************************************************************************)
DriverAtRest ==
    /\ args = WithDerived(BaseArgs)
    /\ asserts_on = TRUE
    /\ box_actions = TRUE
    /\ DriverStart

InitAction ==
    /\ \E n \in 1 .. MaxBatch, items \in DictSpaces : ActionWrapperInit(n, items)
    /\ ObservationWrapperAtRest
    /\ DriverAtRest

NextAction == ActionCall

SpecAction == InitAction /\ [][NextAction]_vars

InitObservation ==
    /\ \E ro \in BOOLEAN : ObservationWrapperInit(ro, InitRawObs)
    /\ ActionWrapperAtRest
    /\ DriverAtRest

NextObservation == ObservationStep \/ ObservationAgain

SpecObservation == InitObservation /\ [][NextObservation]_vars

(***************************************************************************)
(* SpecMetrics: the metrics of an iteration on every pair of stored values *)
(* and returns.                                                            *)
(***************************************************************************)
ReturnVals == {<<0, 1>>, <<1, 2>>, <<1, 1>>}

InitMetrics ==
    /\ args = WithDerived([BaseArgs EXCEPT !.num_envs = 1, !.num_steps = NumSteps + 1,
                                           !.total_timesteps = NumSteps + 1])
    /\ asserts_on = FALSE
    /\ box_actions = TRUE
    /\ pc = "iter_tail"
    /\ iteration = 1
    /\ step = args.num_steps
    /\ global_step = args.batch_size
    /\ values \in [Steps(args) -> [Envs(args) -> ValueVals]]
    /\ returns \in [Steps(args) -> [Envs(args) -> ReturnVals]]
    /\ advantages = [t \in Steps(args) |-> [e \in Envs(args) |->
                        RSub(returns[t][e], RInt(values[t][e]))]]
    /\ rewards = Zeros2(args)
    /\ dones = Zeros2(args)
    /\ final_values = Zeros2(args)
    /\ next_done = [e \in Envs(args) |-> 0]
    /\ next_value = [e \in Envs(args) |-> 0]
    /\ env_elapsed = [e \in Envs(args) |-> 0]
    /\ next_obs = [e \in Envs(args) |-> ResetObs]
    /\ obs = [t \in Steps(args) |-> [e \in Envs(args) |-> ZeroObs]]
    /\ gae_t = 0
    /\ lam_coef_sum = RZeros1(args)
    /\ reward_term_sum = RZeros1(args)
    /\ value_term_sum = RZeros1(args)
    /\ lastgaelam = RZeros1(args)
    /\ params = 0
    /\ epoch = 0
    /\ mb_start = 0
    /\ approx_kl = 0
    /\ kl_stop = NoStop
    /\ eval_steps = 0
    /\ ckpt_writes = 0
    /\ explained_var = Unset
    /\ b_inds = <<>>
    /\ mb_hist = <<>>
    /\ WrappersAtRest

NextMetrics == IterTail

SpecMetrics == InitMetrics /\ [][NextMetrics]_vars

(***************************************************************************)
(* The advantage estimator: closed forms the loop is compared with.        *)
(***************************************************************************)
\* advantages[t] has been written by the backward loop
Computed(t) == pc # "gae" \/ t > gae_t

\* N: the steps from t up to and including the first step whose successor is an
\* episode boundary or the end of the horizon
RECURSIVE HorizonN(_, _, _, _)
HorizonN(ro, a, t, e) ==
    IF t = a.num_steps - 1 \/ DoneAfter(ro, a, t, e) = 1
      THEN 1 ELSE 1 + HorizonN(ro, a, t + 1, e)

\* the value that follows step u: the bootstrap value of the episode that step u
\* ended, else the value estimate of the next step
BootstrapOrNext(ro, a, u, e) ==
    IF DoneAfter(ro, a, u, e) = 1 THEN ro.final_values[u][e]
    ELSE IF u = a.num_steps - 1 THEN ro.next_value[e] ELSE ro.values[u + 1][e]

\* sum_{k<n} gamma^k * rewards[t+k]
RECURSIVE DiscountedRewards(_, _, _, _, _)
DiscountedRewards(ro, a, t, e, n) ==
    IF n = 0 THEN RZero
    ELSE RAdd(DiscountedRewards(ro, a, t, e, n - 1),
              RMul(RPow(a.gamma, n - 1), RInt(ro.rewards[t + n - 1][e])))

\* A_n, the n-step advantage estimate at step t
NStepAdvantage(ro, a, t, e, n) ==
    RAdd(RSub(DiscountedRewards(ro, a, t, e, n), RInt(ro.values[t][e])),
         RMul(RPow(a.gamma, n), RInt(BootstrapOrNext(ro, a, t + n - 1, e))))

\* sum_{m=1..n} lambda^(m-1)
RECURSIVE CoefSum(_, _)
CoefSum(a, n) ==
    IF n = 0 THEN RZero ELSE RAdd(CoefSum(a, n - 1), RPow(a.gae_lambda, n - 1))

\* sum_{m=1..n} lambda^(m-1) * A_m
RECURSIVE WeightedNStepSum(_, _, _, _, _)
WeightedNStepSum(ro, a, t, e, n) ==
    IF n = 0 THEN RZero
    ELSE RAdd(WeightedNStepSum(ro, a, t, e, n - 1),
              RMul(RPow(a.gae_lambda, n - 1), NStepAdvantage(ro, a, t, e, n)))

NStepAverage(ro, a, t, e) ==
    RDiv(WeightedNStepSum(ro, a, t, e, HorizonN(ro, a, t, e)),
         CoefSum(a, HorizonN(ro, a, t, e)))

\* the step the loop processed last
LastProcessed == IF pc = "gae" THEN gae_t + 1 ELSE 0

\* C1: with finite_horizon_gae, advantages[t,e] is the lambda-power-weighted
\* average of the n-step advantage estimates A_1..A_N up to the first episode
\* boundary after t (or the end of the horizon); the accumulators carry nothing
\* across a step whose next_not_done is 0; returns = advantages + values.
C1_FiniteHorizonAverage ==
    args.finite_horizon_gae =>
      /\ \A t \in Steps(args), e \in Envs(args) :
            Computed(t) => advantages[t][e] = NStepAverage(Rollout, args, t, e)
      /\ \A e \in Envs(args) :
            Computed(args.num_steps - 1) =>
              /\ lam_coef_sum[e] = CoefSum(args, HorizonN(Rollout, args, LastProcessed, e))
              /\ DoneAfter(Rollout, args, LastProcessed, e) = 1 =>
                    /\ lam_coef_sum[e] = ROne
                    /\ reward_term_sum[e] = RInt(rewards[LastProcessed][e])
                    /\ value_term_sum[e] =
                          RMul(args.gamma, RInt(final_values[LastProcessed][e]))
      /\ pc = "update" =>
            \A t \in Steps(args), e \in Envs(args) :
                returns[t][e] = RAdd(advantages[t][e], RInt(values[t][e]))

\* a finished finite-horizon pass over a rollout with an episode end after step 1,
\* where step 0 averages two n-step estimates
C1_Witness ==
    /\ pc = "update"
    /\ args.finite_horizon_gae
    /\ args.gae_lambda # RZero
    /\ dones[1][0] = 0 /\ dones[2][0] = 1
    /\ HorizonN(Rollout, args, 0, 0) = 2
    /\ rewards[1][0] = 1
    /\ advantages[0][0] # RZero

\* no episode end inside the horizon and no bootstrap value
NoEpisodeEnds ==
    \A t \in Steps(args), e \in Envs(args) :
        dones[t][e] = 0 /\ next_done[e] = 0 /\ final_values[t][e] = 0

\* the standard recursion: delta_t = r_t + gamma*V(s_{t+1})*next_not_done - V(s_t),
\* A_t = delta_t + gamma*lambda*next_not_done*A_{t+1}
RECURSIVE StandardRecursion(_, _, _, _)
StandardRecursion(ro, a, t, e) ==
    IF t = a.num_steps THEN RZero
    ELSE LET nnd  == RInt(1 - DoneAfter(ro, a, t, e))
             vnxt == RInt(IF t = a.num_steps - 1 THEN ro.next_value[e]
                                                  ELSE ro.values[t + 1][e])
             delta == RSub(RAdd(RInt(ro.rewards[t][e]), RMul(RMul(a.gamma, vnxt), nnd)),
                           RInt(ro.values[t][e]))
         IN  RAdd(delta, RMul(RMul(RMul(a.gamma, a.gae_lambda), nnd),
                              StandardRecursion(ro, a, t + 1, e)))

\* C2 as claimed: without episode ends the finite-horizon advantages equal the
\* standard recursion at every step, for every gamma and lambda.
C2_EqualsStandardEverywhere ==
    (pc = "update" /\ args.finite_horizon_gae /\ NoEpisodeEnds) =>
      \A t \in Steps(args), e \in Envs(args) :
          advantages[t][e] = StandardRecursion(Rollout, args, t, e)

\* C2 as amended: without episode ends the finite-horizon advantages equal the
\* standard recursion at the last step of the horizon, and at every step when
\* lambda = 0.
C2_EqualsStandardLastStepOrLambdaZero ==
    (pc = "update" /\ args.finite_horizon_gae /\ NoEpisodeEnds) =>
      \A t \in Steps(args), e \in Envs(args) :
          (t = args.num_steps - 1 \/ args.gae_lambda = RZero) =>
              advantages[t][e] = StandardRecursion(Rollout, args, t, e)

\* a finished finite-horizon pass without episode ends and lambda > 0: the last
\* step is a nonzero TD residual, and step 0 differs from the standard recursion
C2_Witness ==
    /\ pc = "update"
    /\ args.finite_horizon_gae
    /\ NoEpisodeEnds
    /\ args.gae_lambda # RZero
    /\ advantages[args.num_steps - 1][0] # RZero
    /\ advantages[0][0] # StandardRecursion(Rollout, args, 0, 0)

\* the rollout cut after step b of env e: a horizon of b+1 steps whose last step
\* ended the episode; it holds none of the data of the steps after b, and the
\* end-of-horizon value is blanked
CutRollout(ro, b, e) ==
    [ro EXCEPT !.next_done[e] = 1, !.next_value[e] = 0]

CutArgs(a, b) == [a EXCEPT !.num_steps = b + 1]

\* rollout ro with final_values[b][e] raised by one
FinalRaised(ro, b, e) ==
    [ro EXCEPT !.final_values[b][e] = @ + 1]

\* no episode of env e ends after a step in s .. b-1
NoEndBetween(ro, a, s, b, e) ==
    \A u \in s .. (b - 1) : DoneAfter(ro, a, u, e) = 0

\* the weight of final_values[b] in advantages[b - n + 1]
BootstrapWeight(a, n) ==
    IF a.finite_horizon_gae
      THEN RDiv(RMul(RPow(a.gamma, n), RPow(a.gae_lambda, n - 1)), CoefSum(a, n))
      ELSE RMul(a.gamma, RPow(RMul(a.gamma, a.gae_lambda), n - 1))

\* advantages[s] of env e is what the estimator computes from the rollout cut
\* after step b, so it is the same on every rollout that agrees with this one up
\* to and including step b
IndependentOfSuffix(s, b, e) ==
    advantages[s][e] = AdvantageOf(CutRollout(Rollout, b, e), CutArgs(args, b), s, e)

\* C3 as claimed: if an episode of env e ended at step b, advantages[s,e] for
\* every s <= b is independent of the data after b and of next_value, and
\* includes (depends on) final_values[b,e].
C3_TruncatedAndBootstrappedForAllS ==
    (pc = "update" /\ args.gae_lambda # RZero) =>
      \A e \in Envs(args), b \in Steps(args) :
          DoneAfter(Rollout, args, b, e) = 1 =>
            \A s \in 0 .. b :
                /\ IndependentOfSuffix(s, b, e)
                /\ AdvantageOf(FinalRaised(Rollout, b, e), args, s, e) # advantages[s][e]

\* C3 as amended: advantages[s,e] for every s <= b is independent of the data
\* after b and of next_value; it includes final_values[b,e] with weight
\* gamma^n * lambda^(n-1) / sum_{m<=n} lambda^(m-1) (finite horizon) or
\* gamma * (gamma*lambda)^(n-1) (standard), n = b-s+1, when no episode of the
\* env ends after a step in s..b-1, and does not depend on it otherwise.
C3_TruncatedAtBoundary ==
    pc = "update" =>
      \A e \in Envs(args), b \in Steps(args) :
          DoneAfter(Rollout, args, b, e) = 1 =>
            \A s \in 0 .. b :
                /\ IndependentOfSuffix(s, b, e)
                /\ RSub(AdvantageOf(FinalRaised(Rollout, b, e), args, s, e),
                        advantages[s][e])
                     = IF NoEndBetween(Rollout, args, s, b, e)
                         THEN BootstrapWeight(args, b - s + 1) ELSE RZero

\* a finished pass over a rollout whose episode ended at step 1 and that has
\* rewards and values after the boundary
C3_Witness ==
    /\ pc = "update"
    /\ args.gae_lambda # RZero
    /\ dones[1][0] = 0 /\ dones[2][0] = 1
    /\ final_values[1][0] # 0
    /\ rewards[2][0] = 1 /\ values[2][0] = 1 /\ next_value[0] = 1
    /\ advantages[0][0] # RZero

(***************************************************************************)
(* The update phase and the rollout buffers, under Spec.                   *)
(***************************************************************************)
\* approx_kl of the pass just made is above the configured target
KLExceeded(a, kl) == ~a.target_kl.is_none /\ kl > a.target_kl.v

\* a step of the minibatch loop
MinibatchPass == pc = "update" /\ args.minibatch_size # 0

\* C6: a minibatch pass whose approx_kl exceeds target_kl makes no optimizer
\* step and is the last pass of the update of its iteration, so that the update
\* counter stays put until the iteration is over; every other pass makes one
\* optimizer step, also when an earlier iteration was stopped early, and the
\* update of an iteration starts at epoch 0, minibatch 0.
C6_EarlyStopEndsUpdateOfIteration ==
    [][/\ (MinibatchPass /\ KLExceeded(args, approx_kl'))
            => (params' = params /\ pc' = "iter_tail")
       /\ (MinibatchPass /\ ~KLExceeded(args, approx_kl')) => params' = params + 1
       /\ kl_stop = iteration => params' = params
       /\ (pc # "update" /\ pc' = "update") => (epoch' = 0 /\ mb_start' = 0)]_vars

\* the update of the iteration after an early stop has made the passes of its
\* first epoch
C6_Witness ==
    /\ pc = "update"
    /\ kl_stop # NoStop /\ kl_stop = iteration - 1
    /\ epoch = 1
    /\ params >= args.num_minibatches

\* the done flag that follows step t of env e: dones[t+1], or next_done for the
\* latest step of the rollout
DoneFollowing(t, e) == IF t + 1 < step THEN dones[t + 1][e] ELSE next_done[e]

\* C7 as claimed: final_values[t,e] is nonzero only if dones[t,e] is 1.
C7_NonzeroOnlyWhereDoneSameStep ==
    \A t \in Steps(args), e \in Envs(args) :
        final_values[t][e] # 0 => dones[t][e] = 1

\* C7 as amended: final_values[t,e] is nonzero only if step t of the current
\* iteration has been made and the done flag that follows it (dones[t+1,e], or
\* next_done[e] for the latest step) is 1.
C7_NonzeroOnlyWhereDoneFollows ==
    \A t \in Steps(args), e \in Envs(args) :
        final_values[t][e] # 0 => (t < step /\ DoneFollowing(t, e) = 1)

\* an episode ended at a step that started with the done flag at 0, and the
\* rollout went on
C7_Witness ==
    \E t \in Steps(args), e \in Envs(args) :
        /\ t + 1 < step
        /\ final_values[t][e] # 0
        /\ dones[t][e] = 0 /\ dones[t + 1][e] = 1

\* C8 as claimed: dones[t,e] = 1 implies that the observation stored at t+1 is
\* the reset observation of a new episode, and no final observation is stored.
C8_DoneThenResetAtNextStep ==
    \A t \in Steps(args), e \in Envs(args) :
        /\ (t + 1 < step /\ dones[t][e] = 1) => obs[t + 1][e] = ResetObs
        /\ t < step => obs[t][e].kind # "final"

\* C8 as amended: dones[t,e] = 1 implies that the observation stored at the
\* same step t is the reset observation of a new episode (likewise next_done
\* and next_obs), and no final observation is stored in obs or next_obs.
C8_DoneThenResetAtSameStep ==
    /\ \A t \in Steps(args), e \in Envs(args) :
          t < step =>
            /\ dones[t][e] = 1 => obs[t][e] = ResetObs
            /\ obs[t][e].kind # "final"
    /\ \A e \in Envs(args) :
          /\ next_done[e] = 1 => next_obs[e] = ResetObs
          /\ next_obs[e].kind # "final"

\* a step stored the reset observation with its flag, and the step after it
\* stored the observation one step into the new episode
C8_Witness ==
    \E t \in Steps(args), e \in Envs(args) :
        /\ t + 1 < step
        /\ dones[t][e] = 1 /\ obs[t][e] = ResetObs
        /\ obs[t + 1][e] = MidObs(1)

(***************************************************************************)
(* The action wrapper, under SpecAction.                                   *)
(***************************************************************************)
ActionCalled == action # NoTensor

\* the sum of the dimensions of the sub-spaces
RECURSIVE SumDims(_)
SumDims(items) ==
    IF items = <<>> THEN 0 ELSE Head(items).space.shape[1] + SumDims(Tail(items))

\* row r of the slices, one after the other in the order returned
RECURSIVE RowOfSlices(_, _)
RowOfSlices(items, r) ==
    IF items = <<>> THEN <<>> ELSE Head(items).value.at[r] \o RowOfSlices(Tail(items), r)

\* the returned items have the keys of the Dict space, in its order
DeclaredKeyOrder ==
    /\ Len(unflattened_action) = Len(orig_single_action_space)
    /\ \A i \in DOMAIN unflattened_action :
          unflattened_action[i].key = orig_single_action_space[i].key

\* every returned slice has two axes: the rows (envs) and the columns of its key
SlicesBatched(rows) ==
    \A i \in DOMAIN unflattened_action :
        unflattened_action[i].value.shape
          = <<rows, orig_single_action_space[i].space.shape[1]>>

\* C4: the flat space has the summed dimension; a batch of shape (n, total_dim)
\* is split into one slice per key, in the declared key order on every call,
\* each as wide as its sub-space, which put side by side are the rows of the
\* input (contiguous, disjoint, covering all columns); the slice of key k is the
\* component of k of the nested action that was flattened (round trip).
C4_SlicesPartitionFlatAction ==
    /\ single_action_space = Box(<<SumDims(orig_single_action_space)>>)
    /\ action_space = IF base_env_num_envs > 1
                        THEN Box(<<base_env_num_envs,
                                   SumDims(orig_single_action_space)>>)
                        ELSE single_action_space
    /\ (ActionCalled /\ Len(action.shape) = 2
          /\ action.shape[2] = single_action_space.shape[1]) =>
         /\ action_error = "none"
         /\ DeclaredKeyOrder
         /\ SlicesBatched(action.shape[1])
         /\ \A r \in 1 .. action.shape[1] :
               /\ RowOfSlices(unflattened_action, r) = action.at[r]
               /\ \A i \in DOMAIN unflattened_action :
                     unflattened_action[i].value.at[r]
                       = [j \in 1 .. orig_single_action_space[i].space.shape[1] |->
                            <<orig_single_action_space[i].key, r, j>>]

\* a batch of two rows split over two keys of different dimensions
C4_Witness ==
    /\ ActionCalled /\ action_error = "none"
    /\ action.shape = <<2, 3>>
    /\ Len(unflattened_action) = 2
    /\ unflattened_action[1].value.shape = <<2, 2>>
    /\ unflattened_action[2].value.shape = <<2, 1>>

\* C9: an action with one axis is promoted to a batch of one row exactly when
\* num_envs is 1 and its shape is that of the flat space, and is then sliced
\* like that batch; any other action with one axis (so every one when num_envs
\* > 1) is not promoted, and action() raises IndexError; an action with two axes
\* is sliced as it is, with its own number of rows; every slice returned has a
\* leading batch axis.
C9_PromotionExactlyForOneEnv ==
    ActionCalled =>
      /\ Len(action.shape) = 1 =>
           IF base_env_num_envs = 1 /\ action.shape = single_action_space.shape
             THEN /\ action_error = "none"
                  /\ DeclaredKeyOrder
                  /\ SlicesBatched(1)
                  /\ RowOfSlices(unflattened_action, 1) = action.at
             ELSE action_error = "IndexError" /\ unflattened_action = <<>>
      /\ Len(action.shape) = 2 =>
           /\ action_error = "none"
           /\ DeclaredKeyOrder
           /\ \A i \in DOMAIN unflattened_action :
                 /\ Len(unflattened_action[i].value.shape) = 2
                 /\ unflattened_action[i].value.shape[1] = action.shape[1]

\* an unbatched action of a single env, promoted and split over two keys
C9_Witness ==
    /\ ActionCalled /\ action_error = "none"
    /\ base_env_num_envs = 1
    /\ Len(action.shape) = 1
    /\ Len(unflattened_action) = 2
    /\ unflattened_action[1].value.shape[1] = 1

(***************************************************************************)
(* The observation wrapper, under SpecObservation.                         *)
(***************************************************************************)
\* C5: two calls of observation() with the same observation give the same
\* output.
C5_SecondCallSameOutput ==
    (obs_calls >= 2 /\ prev_obs_error = "none") =>
       (obs_error = "none" /\ new_obs = prev_new_obs)

\* the channels of the cameras in iteration order: color, then depth unless
\* rgb_only
RECURSIVE ExpectedChannels(_, _)
ExpectedChannels(sensor_data, ro) ==
    IF sensor_data = <<>>
      THEN <<>>
      ELSE LET cam == Head(sensor_data).key
           IN  <<[cam |-> cam, ch |-> "r"], [cam |-> cam, ch |-> "g"],
                 [cam |-> cam, ch |-> "b"]>>
                 \o (IF ro THEN <<>> ELSE <<[cam |-> cam, ch |-> "d"]>>)
                 \o ExpectedChannels(Tail(sensor_data), ro)

\* the entries of the fields that are no sensor fields, in order
RECURSIVE ExpectedState(_)
ExpectedState(items) ==
    IF items = <<>>
      THEN <<>>
      ELSE (IF Head(items).key \in {"sensor_data", "sensor_param"}
              THEN <<>> ELSE Head(items).value)
             \o ExpectedState(Tail(items))

\* the argument is the nested dict with its two sensor entries
ExpectedDict(o) ==
    o.is_dict /\ HasKey(o.items, "sensor_data") /\ HasKey(o.items, "sensor_param")

C11_EvaluateOnlyEvaluates ==
    /\ args.evaluate =>
         /\ global_step = 0 /\ params = 0 /\ ckpt_writes = 0
         /\ iteration = 1
         /\ pc # "crashed"
         /\ pc = "done" => eval_steps = args.num_eval_steps
    /\ (~args.evaluate /\ pc \in {"finish", "done"}) =>
         global_step = args.num_iterations * args.batch_size

(***************************************************************************)
(* The explained variance, under SpecMetrics.                              *)
(***************************************************************************)
\* explained_var is that of the values and returns stored now
MetricsComputed == explained_var.kind # "unset" /\ pc \in {"iter_head", "finish"}

StoredValues ==
    Flat(args, [t \in Steps(args) |-> [e \in Envs(args) |-> RInt(values[t][e])]])
StoredReturns == Flat(args, returns)

AllEqual(x) == \A i, j \in DOMAIN x : x[i] = x[j]

\* the variance as the mean of the squares less the square of the mean
MeanSquareVar(x) ==
    RSub(RDiv(RSum([i \in DOMAIN x |-> RMul(x[i], x[i])]), RInt(Len(x))),
         RMul(RDiv(RSum(x), RInt(Len(x))), RDiv(RSum(x), RInt(Len(x)))))

\* C12 as claimed: explained_var is 1 whenever the stored values equal the
\* returns, not-a-number whenever the variance of the returns is 0, and
\* 1 - Var(returns - values) / Var(returns) otherwise.
C12_OneWheneverValuesEqualReturns ==
    MetricsComputed =>
      /\ StoredValues = StoredReturns => explained_var = [kind |-> "num", v |-> ROne]
      /\ AllEqual(StoredReturns) => explained_var = NaN
      /\ (StoredValues # StoredReturns /\ ~AllEqual(StoredReturns)) =>
           explained_var =
             [kind |-> "num",
              v |-> RSub(ROne,
                         RDiv(MeanSquareVar([i \in DOMAIN StoredReturns |->
                                 RSub(StoredReturns[i], StoredValues[i])]),
                              MeanSquareVar(StoredReturns)))]

\* C12 as amended: explained_var is not-a-number whenever the variance of the
\* returns is 0 (all returns equal, also when the values equal them), 1 when
\* the values equal returns that are not all equal, and
\* 1 - Var(returns - values) / Var(returns) whenever the returns are not all
\* equal.
C12_NaNWinsOverOne ==
    MetricsComputed =>
      /\ AllEqual(StoredReturns) => explained_var = NaN
      /\ (StoredValues = StoredReturns /\ ~AllEqual(StoredReturns)) =>
           explained_var = [kind |-> "num", v |-> ROne]
      /\ ~AllEqual(StoredReturns) =>
           explained_var =
             [kind |-> "num",
              v |-> RSub(ROne,
                         RDiv(MeanSquareVar([i \in DOMAIN StoredReturns |->
                                 RSub(StoredReturns[i], StoredValues[i])]),
                              MeanSquareVar(StoredReturns)))]

\* values equal to returns that are all the same, nonzero number: not-a-number
C12_Witness ==
    /\ MetricsComputed
    /\ StoredValues = StoredReturns
    /\ StoredReturns[1] = ROne
    /\ AllEqual(StoredReturns)
    /\ explained_var = NaN

(***************************************************************************)
(* The bootstrap values, the phases and the counters of the driver, under  *)
(* Spec.                                                                   *)
(***************************************************************************)
\* the advantage computation of the iteration is under way
GaePhase == pc \in {"gae", "gae_returns"}

\* the final observation of the episode of env e that step t ended: one step
\* after the observation stored at t
TrueFinalObs(t, e) == FinalObs(obs[t][e].k + 1)

\* C13: the bootstrap term real_next_values[t,e] of the advantage computation
\* is the value of the next step (values[t+1,e], or next_value[e] at the last
\* step) when no episode ended at step t, and the critic's value of the final
\* observation of the episode that step t ended otherwise; final_values[t,e] is
\* 0 whenever next_not_done is 1, final_values is all zero when the rollout of
\* an iteration starts, and an entry changes only when the iteration head zeroes
\* it or when the rollout step of its index ended the episode of its slot.
C13_BootstrapIsNextOrFinalValue ==
    /\ [](GaePhase =>
            \A t \in Steps(args), e \in Envs(args) :
                /\ RealNextValues(Rollout, args, t, e)
                     = IF DoneFollowing(t, e) = 0
                         THEN IF t = args.num_steps - 1
                                THEN next_value[e] ELSE values[t + 1][e]
                         ELSE Critic(TrueFinalObs(t, e))
                /\ NextNotDone(Rollout, args, t, e) = 1 => final_values[t][e] = 0)
    /\ []((pc = "rollout" /\ step = 0) => final_values = Zeros2(args))
    /\ [][\A t \in Steps(args), e \in Envs(args) :
             final_values'[t][e] # final_values[t][e] =>
               \/ pc = "iter_head" /\ final_values'[t][e] = 0
               \/ pc = "rollout" /\ t = step /\ next_done'[e] = 1]_vars

\* the advantage computation over a rollout with an episode end inside the
\* horizon and a step that ended none
C13_Witness ==
    /\ GaePhase
    /\ \E e \in Envs(args) :
          /\ dones[1][e] = 1
          /\ final_values[0][e] = Critic(TrueFinalObs(0, e))
          /\ next_done[e] = 0
          /\ final_values[args.num_steps - 1][e] = 0

\* the epoch entered last has made all the passes of its minibatch loop, none
\* of them cut short by the KL stop
EpochComplete ==
    /\ Len(mb_hist) > 0
    /\ pc = "iter_tail" \/ (pc = "update" /\ mb_start = 0)
    /\ ~KLExceeded(args, approx_kl)

\* the number of places index i takes in the minibatches of the epoch
Occurrences(i) ==
    Cardinality({<<m, k>> \in (DOMAIN mb_hist) \X (1 .. args.batch_size) :
                   k \in DOMAIN mb_hist[m] /\ mb_hist[m][k] = i})

\* C14 as claimed: the update loop never fails on the sizes, and a complete
\* epoch has split the indices 0 .. batch_size-1 into exactly num_minibatches
\* minibatches, each index in exactly one of them.
C14_ExactlyNumMinibatches ==
    /\ pc = "crashed" => args.evaluate
    /\ EpochComplete =>
         /\ Len(mb_hist) = args.num_minibatches
         /\ \A i \in 0 .. args.batch_size - 1 : Occurrences(i) = 1

\* the driver is computing the advantages and returns of the iteration
AdvantagePhase == pc \in {"gae_begin", "gae", "gae_returns"}

\* a step of the training envs
EnvStepped == global_step' # global_step \/ env_elapsed' # env_elapsed

\* an optimizer step
OptimizerStepped == params' # params

\* returns holds advantages + values of the whole rollout
AdvantagesComplete ==
    returns = [t \in Steps(args) |-> [e \in Envs(args) |->
                  RAdd(advantages[t][e], RInt(values[t][e]))]]

\* C15: in every iteration the rollout (all num_steps env steps), the
\* advantage computation and the update epochs follow in this order; no
\* optimizer step is made before the last env step of the rollout and the
\* advantage computation are complete, no env step is made during the update,
\* and the parameters stay the same through rollout and advantage computation.
C15_PhasesInOrder ==
    /\ [](AdvantagePhase \/ pc \in {"update", "iter_tail"} =>
             /\ step = args.num_steps
             /\ global_step = iteration * args.num_steps * args.num_envs)
    /\ [][/\ (pc' = "rollout" /\ pc # "rollout") => (pc = "iter_head" /\ step' = 0)
          /\ (pc = "rollout" /\ pc' = "rollout") => (EnvStepped /\ step' = step + 1)
          /\ (pc = "rollout" /\ pc' # "rollout") => (EnvStepped /\ pc' \in {"gae_begin", "crashed"})
          /\ pc' = "gae_begin" => pc = "rollout"
          /\ pc = "gae_begin" => pc' = "gae"
          /\ pc = "gae" => pc' \in {"gae", "gae_returns"}
          /\ pc' = "gae_returns" => (pc = "gae" /\ gae_t = 0)
          /\ pc = "gae_returns" => pc' \in {"update", "iter_tail"}
          /\ (pc' = "update" /\ pc # "update") => (pc = "gae_returns" /\ AdvantagesComplete')
          /\ pc = "update" => pc' \in {"update", "iter_tail", "crashed"}
          /\ OptimizerStepped => (pc = "update" /\ AdvantagesComplete)
          /\ EnvStepped => pc = "rollout"
          /\ (pc = "rollout" \/ AdvantagePhase) => ~OptimizerStepped]_vars

\* the update of the second iteration has made optimizer steps in two epochs
C15_Witness ==
    /\ pc = "update"
    /\ iteration = 2
    /\ epoch = 1
    /\ params > args.num_minibatches
    /\ global_step = 2 * args.batch_size

\* what the env step that follows observation o gives in a slot: the reset
\* observation with the done flag, or the observation one step further without
Follows(o, next_o, done) ==
    next_o = IF done = 1 THEN ResetObs ELSE MidObs(o.k + 1)

\* C16: obs[t] and dones[t] are the observation and the combined done flag of
\* the env step before step t, stored before step t acts; this holds across
\* iterations (the first row of an iteration comes from the last env step of
\* the iteration before, the envs are not reset in between), and the first
\* step of all stores the observation of the initial reset with flags of zero.
C16_StoredBeforeStepFromStepBefore ==
    /\ []((pc \in {"iter_head", "rollout"} /\ global_step = 0) =>
             \A e \in Envs(args) : next_obs[e] = ResetObs /\ next_done[e] = 0)
    /\ [](pc \notin {"startup", "aborted"} =>
             \A e \in Envs(args) :
                /\ \A t \in Steps(args) :
                      (0 < t /\ t < step) =>
                          Follows(obs[t - 1][e], obs[t][e], dones[t][e])
                /\ (iteration > 1 /\ 0 < step /\ step < args.num_steps) =>
                      Follows(obs[args.num_steps - 1][e], obs[0][e], dones[0][e])
                /\ (iteration = 1 /\ 0 < step) =>
                      (obs[0][e] = ResetObs /\ dones[0][e] = 0))
    /\ [][/\ EnvStepped =>
               /\ obs'[step] = next_obs /\ dones'[step] = next_done
               /\ \A e \in Envs(args) : Follows(next_obs[e], next_obs'[e], next_done'[e])
               /\ \A t \in Steps(args) :
                     t # step => (obs'[t] = obs[t] /\ dones'[t] = dones[t])
          /\ (~EnvStepped /\ pc # "startup") =>
               UNCHANGED <<next_obs, next_done, env_elapsed, obs, dones>>]_vars

\* the first row of the second iteration holds what the last env step of the
\* first iteration gave, an episode that goes on across the two iterations
C16_Witness ==
    /\ pc = "rollout"
    /\ iteration = 2
    /\ step = 1
    /\ \E e \in Envs(args) :
          /\ dones[0][e] = 0
          /\ obs[args.num_steps - 1][e] = ResetObs
          /\ obs[0][e] = MidObs(1)

\* the env steps the rollouts have completed
CompletedSteps ==
    IF pc = "iter_head"
      THEN (iteration - 1) * args.num_steps
      ELSE (iteration - 1) * args.num_steps + step

\* C17 as claimed: startup aborts before training only on a configuration
\* error (an action space that is not a Box), and then before any env step; with a Box action space and evaluate off,
\* global_step is completed_steps * num_envs at all times and never exceeds
\* total_timesteps, and the driver ends only after num_iterations iterations
\* of num_steps env steps each.
C17_AbortsOnlyOnConfigurationError ==
    /\ pc \in {"aborted", "config_error"} =>
          (~box_actions /\ global_step = 0)
    /\ (box_actions /\ ~args.evaluate) =>
          /\ global_step = CompletedSteps * args.num_envs
          /\ global_step <= args.total_timesteps
          /\ pc \in {"finish", "done"} =>
                /\ iteration = args.num_iterations
                /\ global_step = args.num_iterations * args.num_steps * args.num_envs

====
